---- MODULE Spec2Model ----
(***************************************************************************)
(* sncf-max-confirmator: the lambda entry point, the per-credential        *)
(* orchestration loop and the rotating-cookie Booking API client with its  *)
(* reactive and proactive token refresh.                                   *)
(*                                                                         *)
(* JavaScript runs one task at a time: code between two awaits is atomic,  *)
(* and a response to a request that nobody awaits (the proactive refresh)  *)
(* is handled only while the main flow is suspended on an await.  The      *)
(* actions below are cut at the awaits that separate two accesses to the   *)
(* client's token.                                                         *)
(***************************************************************************)
EXTENDS Integers, Sequences, FiniteSets, Bags, TLC

\* ----------------------------------------------------------------- bounds
\* The entries of the stored array, and the cards of a customer.
MaxUsers == 2
MaxCards == 2
\* What the service does in the course of one run, over all credentials: the
\* travels it lists (whatever their cards and their status), the new cookie
\* values it sets (a rotated auth token, a foreign cookie or a datadome
\* cookie) and the proactive refreshes it answers (the others stay
\* unanswered).
MaxTravels == 2
MaxNew == 1
MaxReplies == 1

\* ----------------------------------------------------------------- values
\* A token is <<credential id, n>>: the n-th token the service issued for it.
Tok(id, n) == <<id, n>>
\* null (no cookie found) and "" (a cookie whose value trims to nothing).
Null == <<>>
EmptyStr == <<0, 0>>
\* JavaScript truthiness of a string | null.
Truthy(v) == v # Null /\ v # EmptyStr

TravelStatuses == {"TOO_EARLY_TO_CONFIRM", "TOO_LATE_TO_CONFIRM", "TO_BE_CONFIRMED",
                   "WILL_BE_CANCELED", "CONFIRMED"}
ContractStatuses == {"VALIDE", "RESILIE"}
ProductTypes == {"TGV_MAX_JEUNE", "TGV_MAX_SENIOR"}
CardNumbers == 1 .. MaxCards
HttpStatuses == {200, 401, 403, 500}

\* ------------------------------------------------------------ the store
\* DataDome cookie values: the one stored with the first credential (the other
\* credentials are stored without one) and the one the service sets.
Datadome(n) == <<n>>
StoredDatadome(i) == IF i = 1 THEN Datadome(i) ELSE Null
ServiceDatadome == Datadome(0)
\* What the parameter store holds under the users parameter name.  fails: the
\* SSM call throws.  kind: no value, an empty string, text that is not JSON,
\* JSON that is not an array, a JSON array of credentials.
StoredUser(i, hasToken) ==
  [id |-> i, name |-> "stored", accessToken |-> IF hasToken THEN Tok(i, 0) ELSE EmptyStr,
   datadomeCookie |-> StoredDatadome(i)]
StoredArrays ==
  UNION {{[i \in 1 .. k |-> StoredUser(i, f[i])] : f \in [1 .. k -> BOOLEAN]} : k \in 0 .. MaxUsers}
StoreContents ==
  {[fails |-> TRUE, kind |-> "array", entries |-> <<>>]} \cup
  {[fails |-> FALSE, kind |-> k, entries |-> <<>>] : k \in {"absent", "empty", "malformed", "object"}} \cup
  {[fails |-> FALSE, kind |-> "array", entries |-> a] : a \in StoredArrays}

\* A catch that would log the error of the SSM call and throw it again.
CatchSsmError_Mut(failed) == failed
\* The catch around the SSM call in getParameterValue and in updateParameter:
\* the error is logged and the function goes on; whether it throws.
CatchSsmError(failed) == FALSE
\* getParameterValue: the value, or null when SSM throws (caught and logged)
\* or holds no value.
getParameterValue(st) ==
  IF st.fails
    THEN [threw |-> CatchSsmError(TRUE), isNull |-> ~CatchSsmError(TRUE), kind |-> "absent",
          entries |-> <<>>]
  ELSE IF st.kind = "absent"
    THEN [threw |-> FALSE, isNull |-> TRUE, kind |-> "absent", entries |-> <<>>]
  ELSE [threw |-> FALSE, isNull |-> FALSE, kind |-> st.kind, entries |-> st.entries]
\* updateParameter once putParameter has settled: the value is stored, or SSM
\* threw (caught and logged); whether its promise rejects.
updateParameter(putFails) ==
  [threw |-> putFails /\ CatchSsmError(TRUE), stored |-> ~putFails]

\* JSON.parse of the stored text: throws on text that is not JSON.
JSONparse(v) ==
  [threw |-> v.kind = "malformed", isArray |-> v.kind = "array", value |-> v.entries]

HasAccessToken(user) == Truthy(user.accessToken)

\* A getUsers that lacks the Array.isArray test.
getUsers_Mut(st) ==
  LET v == getParameterValue(st)
      p == JSONparse(v)
  IN  IF v.threw
        THEN [threw |-> TRUE, message |-> "store error", users |-> <<>>]
      ELSE IF v.isNull \/ v.kind = "empty"
        THEN [threw |-> TRUE, message |-> "Cannot get SNCF users from SSM.", users |-> <<>>]
      ELSE IF p.threw
        THEN [threw |-> TRUE, message |-> "Cannot parse SNCF users from SSM.", users |-> <<>>]
      ELSE [threw |-> FALSE, message |-> "", users |-> SelectSeq(p.value, HasAccessToken)]
\* getUsers: the credentials with a token, or a thrown error.
getUsers(st) ==
  LET v == getParameterValue(st)
      p == JSONparse(v)
  IN  IF v.threw
        THEN [threw |-> TRUE, message |-> "store error", users |-> <<>>]
      ELSE IF v.isNull \/ v.kind = "empty"
        THEN [threw |-> TRUE, message |-> "Cannot get SNCF users from SSM.", users |-> <<>>]
      ELSE IF p.threw
        THEN [threw |-> TRUE, message |-> "Cannot parse SNCF users from SSM.", users |-> <<>>]
      ELSE IF ~p.isArray
        THEN [threw |-> TRUE, message |-> "SNCF users is not an array.", users |-> <<>>]
      ELSE [threw |-> FALSE, message |-> "", users |-> SelectSeq(p.value, HasAccessToken)]

\* ----------------------------------------------------------- the client
\* The Set-Cookie header of a response, as far as the auth cookie goes:
\* no auth cookie, one whose value is blank, one carrying a token, or no auth
\* cookie but a cookie whose name ends in "auth" (oauth=v), which the pattern
\* auth=([^;]+) matches as well.
NoAuthCookie == [kind |-> "absent", tok |-> Null]
BlankAuthCookie == [kind |-> "blank", tok |-> Null]
AuthCookie(t) == [kind |-> "token", tok |-> t]
OtherValue == <<0, 1>>
OtherCookie == [kind |-> "other", tok |-> OtherValue]
\* A Set-Cookie header that carries a datadome cookie and no auth cookie.
DatadomeCookie == [kind |-> "datadome", tok |-> Null]
\* The auth token a header carries, or null.
AuthTokenOf(h) == IF h.kind = "token" THEN h.tok ELSE Null

\* extractCookieFromHeaders(response, "auth"): match[1].trim(), or null.
extractCookieFromHeaders(h) ==
  CASE h.kind = "absent" -> Null
    [] h.kind = "blank" -> EmptyStr
    [] OTHER -> h.tok
\* extractCookieFromHeaders(response, "datadome").
extractDatadomeFromHeaders(h) == IF h.kind = "datadome" THEN ServiceDatadome ELSE Null

\* An updateCookiesFromResponse that would adopt whatever the header gives.
updateCookiesFromResponse_Mut(held, h) ==
  LET newAuthCookie == extractCookieFromHeaders(h)
  IN  IF newAuthCookie # held THEN newAuthCookie ELSE held
\* updateCookiesFromResponse: the token held after a response with header h.
updateCookiesFromResponse(held, h) ==
  LET newAuthCookie == extractCookieFromHeaders(h)
  IN  IF Truthy(newAuthCookie) /\ newAuthCookie # held THEN newAuthCookie ELSE held
\* updateCookiesFromResponse, its second half: the datadome cookie held after
\* a response with header h.
updateDatadomeFromResponse(heldDatadome, h) ==
  LET datadomeCookie == extractDatadomeFromHeaders(h)
  IN  IF datadomeCookie # Null THEN datadomeCookie ELSE heldDatadome
\* The constructor as the orchestrator calls it, new SNCFMaxJeuneAPI(accessToken):
\* no datadomeCookie argument is given, so _datadomeCookie stays null.
constructor(user) == [accessToken |-> user.accessToken, datadomeCookie |-> Null]
\* buildCookieHeader: the auth cookie, and the datadome cookie when one is held.
buildCookieHeader(accessToken, datadomeCookie) ==
  [auth |-> accessToken, datadome |-> datadomeCookie]

\* response.ok
ResponseOk(status) == status >= 200 /\ status <= 299
\* A test that would refresh on every response that is not ok.
NeedsRefresh_Mut(status, retryOnRefresh) == ~ResponseOk(status) /\ retryOnRefresh
\* makeRequest's test for a reactive refresh.
NeedsRefresh(status, retryOnRefresh) == (status = 401 \/ status = 403) /\ retryOnRefresh
\* A retry that would itself refresh and retry.
RetryFlagOfRetry_Mut == TRUE
\* The retryOnRefresh argument makeRequest passes to its retry.
RetryFlagOfRetry == FALSE
\* A makeRequest that would fire its proactive refresh on every response.
FiresProactive_Mut(status, retryOnRefresh) == TRUE
\* makeRequest reaches its proactive refresh: neither branch above it threw.
FiresProactive(status, retryOnRefresh) ==
  ~NeedsRefresh(status, retryOnRefresh) /\ ResponseOk(status)
\* The errors makeRequest throws, by what their message names: the status (and
\* body) of a response, and the error of the refresh.
\* An error for a failed refresh that would name the response only.
CompositeError_Mut(status, rok) == [err |-> "api", errOrig |-> status, errRefresh |-> "none"]
\* "API request failed due to expired token, and refresh failed: <refresh
\* error>. Original error (<status>): <body>"
CompositeError(status, rok) ==
  [err |-> "composite", errOrig |-> status,
   errRefresh |-> IF rok THEN "nocookie" ELSE "failed"]
\* An error for a failed response that would be wrapped as a refresh failure.
ApiError_Mut(status) == CompositeError(status, TRUE)
\* "API request failed (<status>): <body>"
ApiError(status) == [err |-> "api", errOrig |-> status, errRefresh |-> "none"]
\* The call c once it has thrown e.
Thrown(c, e) ==
  [c EXCEPT !.stage = "failed", !.err = e.err, !.errOrig = e.errOrig,
            !.errRefresh = e.errRefresh]
\* refreshToken's final test: throws when it holds.
NoNewAuthCookie(newAuthCookie, held) == ~Truthy(newAuthCookie) \/ newAuthCookie = held

\* ------------------------------------------------------ the orchestrator
\* A card filter that accepts a card on either condition alone.
IsValidCard_Mut(card) == card.contractStatus = "VALIDE" \/ card.productType = "TGV_MAX_JEUNE"
\* The filters of confirmUsersTravels.
IsValidCard(card) == card.contractStatus = "VALIDE" /\ card.productType = "TGV_MAX_JEUNE"
IsToConfirm(travel) == travel.travelConfirmed = "TO_BE_CONFIRMED"
ValidCards(cards) == SelectSeq(cards, IsValidCard)
\* A travel selection that filters nothing.
TravelsToConfirm_Mut(travels) == travels
TravelsToConfirm(travels) == SelectSeq(travels, IsToConfirm)

\* A loop that would give a card its key only with its first confirmation.
InitCount_Mut(cnt, cardNumber) == cnt
\* confirmedTravelsCount[cardNumber] = 0 unless it already holds a count.
InitCount(cnt, cardNumber) ==
  IF cardNumber \in DOMAIN cnt /\ cnt[cardNumber] # 0 THEN cnt ELSE (cardNumber :> 0) @@ cnt
\* A count that is incremented whether or not confirmTravel resolved.
CountConfirmed_Mut(cnt, cardNumber, resolved) == [cnt EXCEPT ![cardNumber] = @ + 1]
\* confirmedTravelsCount[cardNumber]++ after a confirmTravel that resolved.
CountConfirmed(cnt, cardNumber, resolved) ==
  IF resolved THEN [cnt EXCEPT ![cardNumber] = @ + 1] ELSE cnt

\* ------------------------------------------------- the remote responses
\* Bodies of a successful read-customer response: text that is not JSON, the
\* JSON value null, an object without a cards array, or a customer whose
\* i-th card has card number i.
CardLists(n) ==
  UNION {{[i \in 1 .. k |-> [cardNumber |-> i, productType |-> f[i][1], contractStatus |-> f[i][2]]] :
            f \in [1 .. k -> ProductTypes \X ContractStatuses]} : k \in 0 .. n}
ProfileBodies(n) ==
  {[kind |-> k, cards |-> <<>>] : k \in {"invalid", "null", "nocards"}} \cup
  {[kind |-> "customer", cards |-> c] : c \in CardLists(n)}
\* Bodies of a successful travel-consultation response: not JSON, JSON that is
\* no array, an array holding a null, or a list of travels.
TravelLists(n) ==
  UNION {{[i \in 1 .. k |-> [orderId |-> i, travelConfirmed |-> f[i]]] :
            f \in [1 .. k -> TravelStatuses]} : k \in 0 .. n}
TravelBodies(n) ==
  {[kind |-> k, travels |-> <<>>] : k \in {"invalid", "notarray", "nullitem"}} \cup
  {[kind |-> "list", travels |-> t] : t \in TravelLists(n)}
\* A getTravels that would hand back whatever JSON value the response holds.
getTravels_Mut(body) ==
  IF body.kind = "invalid"
    THEN [threw |-> TRUE, err |-> "parse", ret |-> [kind |-> "none", travels |-> <<>>]]
  ELSE [threw |-> FALSE, err |-> "none", ret |-> body]
\* getTravels from the body of the response makeRequest returned: json()
\* throws on text that is not JSON, a value that is no array is refused, and an
\* array is returned as it is (whatever it holds).
getTravels(body) ==
  IF body.kind = "invalid"
    THEN [threw |-> TRUE, err |-> "parse", ret |-> [kind |-> "none", travels |-> <<>>]]
  ELSE IF body.kind = "notarray"
    THEN [threw |-> TRUE, err |-> "format", ret |-> [kind |-> "none", travels |-> <<>>]]
  ELSE [threw |-> FALSE, err |-> "none", ret |-> body]
\* Bodies of a successful travel-confirm response: JSON or not.
ConfirmBodies == {"json", "invalid"}

VARIABLES
  store,             \* the parameter store's content
  pc,                \* "start", "loop", "cards", "trav", "call", "enduser", "done"
  returned,          \* lambdaHandler's promise: "pending", "result", "rejected"
  statusCode,        \* the statusCode of the result (0 while there is none)
  loaded,            \* getUsers returned a list
  users,             \* the in-memory credential records
  ui,                \* index of the credential being processed
  validCards, ci,    \* the eligible cards of the credential, the current one
  travelsToConfirm, ti,  \* the travels to confirm of the card, the current one
  counts,            \* confirmedTravelsCount
  apiTok,            \* the client's _accessToken
  call,              \* the client call in progress (or the one that just ended);
                     \* status: the status of the last response to its request;
                     \* err, errOrig, errRefresh: the kind of the error it threw, the
                     \* response status and the refresh error that error names;
                     \* rnew: its refresh was answered ok with a token other than the
                     \* one the refresh request carried; rsame: its refresh response
                     \* carried no auth token or the one the request carried; retryNew: its
                     \* retry carried the token of the refresh response
  msg,               \* the awaited request / response
  proReq, proResp,   \* the proactive refreshes the service has not answered: the
                     \* number of those of the current client and, per credential,
                     \* of those of the earlier clients of the run; and the replies
                     \* that are on their way: those to the current client, and the
                     \* number of those to the earlier clients
  srvTok,            \* per credential, the index of the last token the service issued
  written,           \* what was handed to updateParameter: n calls, the last value,
                     \* outcome "none", "pending", "stored" or "failed" ("raised": updateParameter rejected)
  sentStale,         \* the last step sent a request with a token the service had replaced
  anyRequest,        \* a Booking API request was sent
  attempted,         \* number of credentials whose profile fetch was started
  okConfirms,        \* per card number, the confirmTravel calls that resolved
  recv,              \* the last step handled a response: the auth token its headers
                     \* carried (or null), the token held before
  served,            \* what the service has sent in the run so far: replies to
                     \* proactive refreshes, travels listed, responses with a cookie
                     \* whose name ends in "auth" or with a datadome cookie
  apiDd,             \* the client's _datadomeCookie
  eligible,          \* the card numbers of the eligible cards of the profiles fetched
  started,           \* the getTravels calls started for the current credential and
                     \* the confirmTravel calls started for the current card
  single             \* the single-card handler's invocation (see SingleCardSpec)

vars == <<store, pc, returned, statusCode, loaded, users, ui, validCards, ci,
          travelsToConfirm, ti, counts, apiTok, call, msg, proReq, proResp, srvTok,
          written, sentStale, anyRequest, attempted, okConfirms, recv, served, apiDd,
          eligible, started, single>>

NoRecv == [got |-> FALSE, auth |-> Null, held |-> Null]
Received(h, held) == [got |-> TRUE, auth |-> AuthTokenOf(h), held |-> held]
NoMsg == [stage |-> "none", url |-> "none", tok |-> Null, dd |-> Null, header |-> NoAuthCookie]
\* A request: its url, the cookies of its Cookie header, no response yet.
Request(url, cookieHeader) ==
  [stage |-> "request", url |-> url, tok |-> cookieHeader.auth, dd |-> cookieHeader.datadome,
   header |-> NoAuthCookie]
NoCall == [op |-> "none", stage |-> "idle", retryOnRefresh |-> TRUE, nreq |-> 0, nref |-> 0,
           status |-> 0,
           rok |-> FALSE, rauth |-> Null, rnew |-> FALSE, rsame |-> FALSE, retryNew |-> FALSE,
           err |-> "none", errOrig |-> 0, errRefresh |-> "none",
           ret |-> [kind |-> "none", travels |-> <<>>]]
\* A public method entering makeRequest(url, options): retryOnRefresh defaults to true.
NewCall(op) == [NoCall EXCEPT !.op = op, !.stage = "req1", !.nreq = 1]

CurId == users[ui].id
\* The token tok is not the last one the service issued for the credential.
IsStale(tok) == tok # Tok(CurId, srvTok[CurId])
\* The proactive refreshes of the run that are not settled: every one a client
\* of the run has sent and whose reply has not been handled.
RECURSIVE Unanswered(_)
Unanswered(n) == IF n = 0 THEN 0 ELSE proReq.earlier[n] + Unanswered(n - 1)
InFlight ==
  proReq.client + Unanswered(MaxUsers) + BagCardinality(proResp.client) + proResp.earlier

\* ------------------------------------------- the single-card handler
\* The invocation of the single-card handler (refresh-token client): where it
\* is, its result (statusCode, the kind of its message and the number N the
\* message names), the client's id token, the travels getTravels returned,
\* those to confirm, the index of the next one and the confirmTravel calls made.
SingleCardStart ==
  [pc |-> "start", statusCode |-> 0, message |-> "none", n |-> 0, token |-> "null",
   travels |-> <<>>, travelsToConfirm |-> <<>>, ti |-> 0, passed |-> 0]
\* A handler result.
SingleCardResult(s, code, message, n) ==
  [s EXCEPT !.pc = "done", !.statusCode = code, !.message = message, !.n = n]
\* mustRefreshToken: no token yet, or one whose exp has passed.
mustRefreshToken(token, expired) == token = "null" \/ expired
\* The id token after refreshTokenIfNeeded with the answer of getToken: data
\* with an idToken, or JSON without one (this.token becomes undefined).
refreshTokenIfNeeded(token, expired, answer) ==
  IF mustRefreshToken(token, expired)
    THEN (IF answer = "data" THEN "valid" ELSE "undefined")
  ELSE token
\* The number in "Successfully confirmed N travel(s).": travels.length.
ConfirmedMessageCount(travels, toConfirm) == Len(travels)

Init ==
  /\ store \in StoreContents
  /\ pc = "start" /\ returned = "pending" /\ statusCode = 0 /\ loaded = FALSE
  /\ users = <<>> /\ ui = 0
  /\ validCards = <<>> /\ ci = 0 /\ travelsToConfirm = <<>> /\ ti = 0
  /\ counts = <<>>
  /\ apiTok = Null /\ apiDd = Null /\ call = NoCall /\ msg = NoMsg
  /\ proReq = [client |-> 0, earlier |-> [i \in 1 .. MaxUsers |-> 0]]
  /\ proResp = [client |-> EmptyBag, earlier |-> 0]
  /\ srvTok = [i \in 1 .. MaxUsers |-> 0]
  /\ written = [dispatched |-> FALSE, value |-> <<>>, n |-> 0, outcome |-> "none"]
  /\ sentStale = FALSE /\ anyRequest = FALSE /\ attempted = 0
  /\ okConfirms = [c \in CardNumbers |-> 0]
  /\ recv = NoRecv /\ eligible = {}
  /\ started = [travels |-> 0, confirm |-> 0]
  /\ single = SingleCardStart
  /\ served = [replies |-> 0, travels |-> 0, other |-> 0]

\* lambdaHandler up to its call of confirmUserTravels: getUsers, and the 500
\* result when it throws.
GetUsers ==
  /\ pc = "start"
  /\ LET r == getUsers(store)
     IN  IF r.threw
           THEN /\ pc' = "done" /\ returned' = "result" /\ statusCode' = 500
                /\ UNCHANGED <<loaded, users, ui>>
           ELSE /\ pc' = "loop" /\ users' = r.users /\ ui' = 1 /\ loaded' = TRUE
                /\ UNCHANGED <<returned, statusCode>>
  /\ UNCHANGED <<store, validCards, ci, travelsToConfirm, ti, counts, apiTok, call, msg,
                 proReq, proResp, srvTok, written, sentStale, anyRequest, attempted,
                 okConfirms>>
  /\ recv' = NoRecv
  /\ UNCHANGED <<served, apiDd>>
  /\ UNCHANGED eligible
  /\ UNCHANGED started
  /\ UNCHANGED single

\* for (const user of users): a new client on the stored token, getCustomerInfo
\* sends its request.
NextUser ==
  /\ pc = "loop" /\ ui <= Len(users)
  /\ apiTok' = constructor(users[ui]).accessToken
  /\ apiDd' = constructor(users[ui]).datadomeCookie
  /\ call' = NewCall("profile")
  /\ msg' = Request("api", buildCookieHeader(apiTok', apiDd'))
  /\ sentStale' = IsStale(apiTok')
  /\ anyRequest' = TRUE
  /\ attempted' = attempted + 1
  /\ pc' = "call"
  /\ UNCHANGED <<store, returned, statusCode, loaded, users, ui, validCards, ci,
                 travelsToConfirm, ti, counts, proReq, proResp, srvTok, written, okConfirms>>
  /\ recv' = NoRecv
  /\ UNCHANGED served
  /\ UNCHANGED eligible
  /\ started' = [travels |-> 0, confirm |-> 0]
  /\ UNCHANGED single

\* A loop that would go on to the next credential without awaiting the call
\* in progress.
EndUser_NoAwait ==
  /\ pc \in {"enduser", "call"} \/ (pc = "cards" /\ ci > Len(validCards))
  /\ ui' = ui + 1 /\ pc' = "loop"
  /\ validCards' = <<>> /\ ci' = 0
  /\ apiTok' = Null /\ apiDd' = Null /\ call' = NoCall
  /\ proReq' = [client |-> 0, earlier |-> [proReq.earlier EXCEPT ![ui] = proReq.client]]
  /\ proResp' = [client |-> EmptyBag,
                 earlier |-> proResp.earlier + BagCardinality(proResp.client)]
  /\ sentStale' = FALSE
  /\ UNCHANGED <<store, returned, statusCode, loaded, users, travelsToConfirm, ti, counts,
                 msg, srvTok, written, anyRequest, attempted, okConfirms>>
  /\ recv' = NoRecv
  /\ UNCHANGED served
  /\ UNCHANGED eligible
  /\ started' = [travels |-> 0, confirm |-> 0]
  /\ UNCHANGED single

\* The end of the loop body for a credential (its last card done, or a
\* continue): the client and the locals go out of scope.  Its proactive
\* refreshes go on: the service may still answer them, and the replies reach
\* that abandoned client only.
EndUser ==
  /\ pc = "enduser" \/ (pc = "cards" /\ ci > Len(validCards))
  /\ ui' = ui + 1 /\ pc' = "loop"
  /\ validCards' = <<>> /\ ci' = 0
  /\ apiTok' = Null /\ apiDd' = Null /\ call' = NoCall
  /\ proReq' = [client |-> 0, earlier |-> [proReq.earlier EXCEPT ![ui] = proReq.client]]
  /\ proResp' = [client |-> EmptyBag,
                 earlier |-> proResp.earlier + BagCardinality(proResp.client)]
  /\ sentStale' = FALSE
  /\ UNCHANGED <<store, returned, statusCode, loaded, users, travelsToConfirm, ti, counts,
                 msg, srvTok, written, anyRequest, attempted, okConfirms>>
  /\ recv' = NoRecv
  /\ UNCHANGED served
  /\ UNCHANGED eligible
  /\ started' = [travels |-> 0, confirm |-> 0]
  /\ UNCHANGED single

\* After the last credential: updateParameter is dispatched with the users,
\* confirmUserTravels returns the counts and lambdaHandler its 204 result.
Finish ==
  /\ pc = "loop" /\ ui > Len(users)
  /\ written' = [dispatched |-> TRUE, value |-> users, n |-> written.n + 1,
                 outcome |-> "pending"]
  /\ pc' = "done" /\ returned' = "result" /\ statusCode' = 204
  /\ UNCHANGED <<store, loaded, users, ui, validCards, ci, travelsToConfirm, ti, counts,
                 apiTok, call, msg, proReq, proResp, srvTok, sentStale, anyRequest,
                 attempted, okConfirms>>
  /\ recv' = NoRecv
  /\ UNCHANGED <<served, apiDd>>
  /\ UNCHANGED eligible
  /\ UNCHANGED started
  /\ UNCHANGED single

\* updateParameter after its await: putParameter has succeeded, or it has
\* thrown and the error is caught and logged ("failed").  Were updateParameter
\* to reject ("raised"), the .catch of its caller would log the error.  The
\* run has returned by then.
WriteSettles ==
  /\ pc = "done" /\ written.outcome = "pending"
  /\ \E putFails \in BOOLEAN :
       LET r == updateParameter(putFails)
       IN  written' = [written EXCEPT !.outcome = IF r.threw THEN "raised"
                                                   ELSE IF r.stored THEN "stored"
                                                   ELSE "failed"]
  /\ UNCHANGED <<store, pc, returned, statusCode, loaded, users, ui, validCards, ci,
                 travelsToConfirm, ti, counts, apiTok, call, msg, proReq, proResp, srvTok,
                 sentStale, anyRequest, attempted, okConfirms, recv, served, apiDd,
                 eligible, started, single>>

\* for (const card of validCards): the count is initialised and getTravels sends.
NextCard ==
  /\ pc = "cards" /\ ci <= Len(validCards)
  /\ counts' = InitCount(counts, validCards[ci].cardNumber)
  /\ call' = NewCall("travels")
  /\ msg' = Request("api", buildCookieHeader(apiTok, apiDd))
  /\ sentStale' = IsStale(apiTok)
  /\ pc' = "call"
  /\ UNCHANGED <<store, returned, statusCode, loaded, users, ui, validCards, ci,
                 travelsToConfirm, ti, apiTok, proReq, proResp, srvTok, written, anyRequest,
                 attempted, okConfirms>>
  /\ recv' = NoRecv
  /\ UNCHANGED <<served, apiDd>>
  /\ UNCHANGED eligible
  /\ started' = [travels |-> started.travels + 1, confirm |-> 0]
  /\ UNCHANGED single

\* for (const travel of travelsToConfirm): confirmTravel(travel) sends.
NextTravel ==
  /\ pc = "trav" /\ ti <= Len(travelsToConfirm)
  /\ call' = NewCall("confirm")
  /\ msg' = Request("api", buildCookieHeader(apiTok, apiDd))
  /\ sentStale' = IsStale(apiTok)
  /\ pc' = "call"
  /\ UNCHANGED <<store, returned, statusCode, loaded, users, ui, validCards, ci,
                 travelsToConfirm, ti, counts, apiTok, proReq, proResp, srvTok, written,
                 anyRequest, attempted, okConfirms>>
  /\ recv' = NoRecv
  /\ UNCHANGED <<served, apiDd>>
  /\ UNCHANGED eligible
  /\ started' = [started EXCEPT !.confirm = @ + 1]
  /\ UNCHANGED single

\* The end of the loop body for a card: on to the next card.
TravelsDone ==
  /\ pc = "trav" /\ ti > Len(travelsToConfirm)
  /\ ci' = ci + 1 /\ pc' = "cards"
  /\ travelsToConfirm' = <<>> /\ ti' = 0
  /\ call' = NoCall /\ sentStale' = FALSE
  /\ UNCHANGED <<store, returned, statusCode, loaded, users, ui, validCards, counts,
                 apiTok, msg, proReq, proResp, srvTok, written, anyRequest, attempted,
                 okConfirms>>
  /\ recv' = NoRecv
  /\ UNCHANGED <<served, apiDd>>
  /\ UNCHANGED eligible
  /\ started' = [started EXCEPT !.confirm = 0]
  /\ UNCHANGED single

\* ------------------------------------------------------ the remote service
\* The number of rotations the service made for the first n credentials.
RECURSIVE Rotations(_)
Rotations(n) == IF n = 0 THEN 0 ELSE srvTok[n] + Rotations(n - 1)
\* The new cookie values the service has set in the run.
NewCookies == Rotations(MaxUsers) + served.other
\* The auth cookie by which a response tells the service's token: the
\* credential's current token, or a new one (a rotation).
ServiceCookiesOf(id) ==
  {AuthCookie(Tok(id, srvTok[id]))} \cup
  (IF NewCookies < MaxNew THEN {AuthCookie(Tok(id, srvTok[id] + 1))} ELSE {})
ServiceCookies == ServiceCookiesOf(CurId)
\* The Set-Cookie headers without an auth token: no auth cookie, a blank one,
\* a foreign cookie or a datadome cookie.
TokenlessCookies ==
  {NoAuthCookie, BlankAuthCookie} \cup
  (IF NewCookies < MaxNew THEN {OtherCookie, DatadomeCookie} ELSE {})
\* The headers that tell nothing of the service's token, in a response to a
\* request that carried reqTok: those without a token, and the request's own.
PlainCookies(reqTok) == TokenlessCookies \cup {AuthCookie(reqTok)}
\* What the service has sent once a response carried header h.
ServedHeader(h) ==
  IF h.kind \in {"other", "datadome"} THEN [served EXCEPT !.other = @ + 1] ELSE served
\* The service's token index once it has sent header h.
IssuedTo(id, h) ==
  IF h.kind = "token" /\ h.tok[2] > srvTok[id] THEN [srvTok EXCEPT ![id] = h.tok[2]] ELSE srvTok
Issued(h) == IssuedTo(CurId, h)

\* The service answers the awaited request (an API call or a reactive refresh)
\* and settles the token its response tells, if any.  The status, the body and
\* a cookie of PlainCookies are drawn when the client reads the response.
ServiceAnswers ==
  /\ pc = "call" /\ msg.stage = "request"
  /\ \E h \in {NoAuthCookie} \cup ServiceCookies :
       /\ msg' = [msg EXCEPT !.stage = "response", !.header = h]
       /\ srvTok' = Issued(h)
  /\ sentStale' = FALSE
  /\ UNCHANGED <<store, pc, returned, statusCode, loaded, users, ui, validCards, ci,
                 travelsToConfirm, ti, counts, apiTok, call, proReq, proResp, written,
                 anyRequest, attempted, okConfirms>>
  /\ recv' = NoRecv
  /\ UNCHANGED <<served, apiDd>>
  /\ UNCHANGED eligible
  /\ UNCHANGED started
  /\ UNCHANGED single

\* The Set-Cookie headers the awaited response may turn out to carry.
ResponseHeaders ==
  IF msg.header = NoAuthCookie THEN PlainCookies(msg.tok) ELSE {msg.header}

\* The service answers a proactive refresh of the current client (it answers
\* at most MaxReplies proactive refreshes in a run) and settles the token its
\* reply tells, if any.  A cookie of TokenlessCookies is drawn when the client
\* reads the reply.
ServiceAnswersProactive ==
  /\ pc \in {"call", "done"} /\ proReq.client > 0 /\ served.replies < MaxReplies
  /\ \E h \in {NoAuthCookie} \cup ServiceCookies :
       /\ proReq' = [proReq EXCEPT !.client = @ - 1]
       /\ proResp' = [proResp EXCEPT !.client = @ (+) SetToBag({h})]
       /\ srvTok' = Issued(h)
  /\ served' = [served EXCEPT !.replies = @ + 1]
  /\ sentStale' = FALSE
  /\ UNCHANGED <<store, pc, returned, statusCode, loaded, users, ui, validCards, ci,
                 travelsToConfirm, ti, counts, apiTok, call, msg, written, anyRequest,
                 attempted, okConfirms>>
  /\ recv' = NoRecv
  /\ UNCHANGED apiDd
  /\ UNCHANGED eligible
  /\ UNCHANGED started
  /\ UNCHANGED single

\* The service answers a proactive refresh of an earlier client of the run.
ServiceAnswersEarlier ==
  /\ pc \in {"call", "done"} /\ served.replies < MaxReplies
  /\ \E i \in 1 .. Len(users) :
       /\ proReq.earlier[i] > 0
       /\ \E h \in {NoAuthCookie} \cup ServiceCookiesOf(users[i].id) :
            /\ proReq' = [proReq EXCEPT !.earlier[i] = @ - 1]
            /\ srvTok' = IssuedTo(users[i].id, h)
  /\ proResp' = [proResp EXCEPT !.earlier = @ + 1]
  /\ served' = [served EXCEPT !.replies = @ + 1]
  /\ sentStale' = FALSE
  /\ UNCHANGED <<store, pc, returned, statusCode, loaded, users, ui, validCards, ci,
                 travelsToConfirm, ti, counts, apiTok, call, msg, written, anyRequest,
                 attempted, okConfirms>>
  /\ recv' = NoRecv
  /\ UNCHANGED apiDd
  /\ UNCHANGED eligible
  /\ UNCHANGED started
  /\ UNCHANGED single

\* ------------------------------------------------------------ the client
\* The Set-Cookie headers the reply r may turn out to carry.
ReplyHeaders(r) == IF r = NoAuthCookie THEN TokenlessCookies ELSE {r}

\* refreshToken run by the proactive refresh, from its response on:
\* updateCookiesFromResponse; whatever it throws afterwards is only logged.
\* It runs whenever the reply arrives: while a call of the client awaits, or
\* once the run has ended with the client in hand.
ProactiveReply ==
  /\ pc \in {"call", "done"}
  /\ \E r \in BagToSet(proResp.client) : \E h \in ReplyHeaders(r) :
       /\ proResp' = [proResp EXCEPT !.client = @ (-) SetToBag({r})]
       /\ apiTok' = updateCookiesFromResponse(apiTok, h)
       /\ apiDd' = updateDatadomeFromResponse(apiDd, h)
       /\ recv' = Received(h, apiTok)
       /\ served' = ServedHeader(h)
  /\ sentStale' = FALSE
  /\ UNCHANGED <<store, pc, returned, statusCode, loaded, users, ui, validCards, ci,
                 travelsToConfirm, ti, counts, call, msg, proReq, srvTok, written,
                 anyRequest, attempted, okConfirms>>
  /\ UNCHANGED eligible
  /\ UNCHANGED started
  /\ UNCHANGED single

\* refreshToken of an earlier client of the run, from its response on: the
\* reply changes that abandoned client only.
EarlierReply ==
  /\ pc \in {"call", "done"} /\ proResp.earlier > 0
  /\ proResp' = [proResp EXCEPT !.earlier = @ - 1]
  /\ sentStale' = FALSE /\ recv' = NoRecv
  /\ UNCHANGED <<store, pc, returned, statusCode, loaded, users, ui, validCards, ci,
                 travelsToConfirm, ti, counts, apiTok, call, msg, proReq, srvTok, written,
                 anyRequest, attempted, okConfirms, served, apiDd, eligible, started,
                 single>>

\* A catch that would give up the card when one of its confirmations fails.
Caught_Mut ==
  /\ pc' = (CASE call.op = "profile" -> "enduser" [] OTHER -> "cards")
  /\ ci' = IF call.op \in {"travels", "confirm"} THEN ci + 1 ELSE ci
  /\ ti' = ti
\* A catch that would give up the credential when the travel fetch of one of
\* its cards fails.
Caught_GiveUp ==
  /\ pc' = (CASE call.op \in {"profile", "travels"} -> "enduser" [] OTHER -> "trav")
  /\ ci' = ci
  /\ ti' = IF call.op = "confirm" THEN ti + 1 ELSE ti
\* A catch that would go on to the cards of the credential when its profile
\* fetch fails.
Caught_GoOn ==
  /\ pc' = (CASE call.op \in {"profile", "travels"} -> "cards" [] OTHER -> "trav")
  /\ ci' = ci + 1
  /\ ti' = IF call.op = "confirm" THEN ti + 1 ELSE ti
\* A catch that would try the same travel again when its confirmation fails.
Caught_Retry ==
  /\ pc' = (CASE call.op = "profile" -> "enduser" [] call.op = "travels" -> "cards" [] OTHER -> "trav")
  /\ ci' = IF call.op = "travels" THEN ci + 1 ELSE ci
  /\ ti' = ti
\* The orchestrator's catch around the call that failed: continue with the
\* next credential, the next card or the next travel.
Caught ==
  /\ pc' = (CASE call.op = "profile" -> "enduser" [] call.op = "travels" -> "cards" [] OTHER -> "trav")
  /\ ci' = IF call.op = "travels" THEN ci + 1 ELSE ci
  /\ ti' = IF call.op = "confirm" THEN ti + 1 ELSE ti

\* makeRequest from the response of its fetch: updateCookiesFromResponse, then
\* the 401/403 branch (which reads the body first), the error branch (same) or
\* the proactive refresh, which is not awaited, and the return of the response.
RecvResponse ==
  /\ pc = "call" /\ call.stage \in {"req1", "req2"} /\ msg.stage = "response"
  /\ \E status \in HttpStatuses, h \in ResponseHeaders :
       /\ apiTok' = updateCookiesFromResponse(apiTok, h)
       /\ apiDd' = updateDatadomeFromResponse(apiDd, h)
       /\ recv' = Received(h, apiTok)
       /\ served' = ServedHeader(h)
       /\ call' = [call EXCEPT !.status = status,
                               !.stage = IF NeedsRefresh(status, call.retryOnRefresh) THEN "text1"
                                         ELSE IF ~ResponseOk(status) THEN "errtext"
                                         ELSE "json"]
       /\ IF FiresProactive(status, call.retryOnRefresh)
            THEN /\ proReq' = [proReq EXCEPT !.client = @ + 1]
                 /\ sentStale' = IsStale(apiTok')
            ELSE /\ UNCHANGED proReq
                 /\ sentStale' = FALSE
  /\ msg' = NoMsg
  /\ UNCHANGED <<store, pc, returned, statusCode, loaded, users, ui, validCards, ci,
                 travelsToConfirm, ti, counts, proResp, srvTok, written, anyRequest,
                 attempted, okConfirms>>
  /\ UNCHANGED eligible
  /\ UNCHANGED started
  /\ UNCHANGED single

\* The error branch after response.text(): the API error, which names the
\* status and the body of the response, reaches the catch.
FailAfterText ==
  /\ pc = "call" /\ call.stage = "errtext"
  /\ call' = Thrown(call, ApiError(call.status))
  /\ Caught
  /\ sentStale' = FALSE
  /\ UNCHANGED <<store, returned, statusCode, loaded, users, ui, validCards,
                 travelsToConfirm, counts, apiTok, msg, proReq, proResp, srvTok, written,
                 anyRequest, attempted, okConfirms>>
  /\ recv' = NoRecv
  /\ UNCHANGED <<served, apiDd>>
  /\ UNCHANGED eligible
  /\ UNCHANGED started
  /\ UNCHANGED single

\* The 401/403 branch after response.text(): refreshToken sends its request.
SendRefresh ==
  /\ pc = "call" /\ call.stage = "text1"
  /\ call' = [call EXCEPT !.stage = "refresh", !.nref = @ + 1]
  /\ msg' = Request("refresh", buildCookieHeader(apiTok, apiDd))
  /\ sentStale' = IsStale(apiTok)
  /\ UNCHANGED <<store, pc, returned, statusCode, loaded, users, ui, validCards, ci,
                 travelsToConfirm, ti, counts, apiTok, proReq, proResp, srvTok, written,
                 anyRequest, attempted, okConfirms>>
  /\ recv' = NoRecv
  /\ UNCHANGED <<served, apiDd>>
  /\ UNCHANGED eligible
  /\ UNCHANGED started
  /\ UNCHANGED single

\* refreshToken from the response of its fetch: updateCookiesFromResponse, then
\* it reads the body.
RecvRefresh ==
  /\ pc = "call" /\ call.stage = "refresh" /\ msg.stage = "response"
  /\ \E status \in HttpStatuses, h \in ResponseHeaders :
       /\ apiTok' = updateCookiesFromResponse(apiTok, h)
       /\ apiDd' = updateDatadomeFromResponse(apiDd, h)
       /\ recv' = Received(h, apiTok)
       /\ served' = ServedHeader(h)
       /\ call' = [call EXCEPT !.stage = "rtext", !.rok = ResponseOk(status),
                               !.rauth = extractCookieFromHeaders(h),
                               !.rnew = /\ ResponseOk(status)
                                        /\ Truthy(extractCookieFromHeaders(h))
                                        /\ extractCookieFromHeaders(h) # msg.tok,
                               !.rsame = AuthTokenOf(h) \in {Null, msg.tok}]
  /\ msg' = NoMsg
  /\ sentStale' = FALSE
  /\ UNCHANGED <<store, pc, returned, statusCode, loaded, users, ui, validCards, ci,
                 travelsToConfirm, ti, counts, proReq, proResp, srvTok, written,
                 anyRequest, attempted, okConfirms>>
  /\ UNCHANGED eligible
  /\ UNCHANGED started
  /\ UNCHANGED single

\* refreshToken after response.text(): it throws on a response that is not ok
\* ("Token refresh failed") or brings no new auth cookie ("Token refresh did
\* not return a new auth cookie"), and makeRequest then throws the composite
\* error, which names the refresh error and the status and body of the first
\* response; otherwise makeRequest re-issues the request.
RefreshCheck ==
  /\ pc = "call" /\ call.stage = "rtext"
  /\ IF ~call.rok \/ NoNewAuthCookie(call.rauth, apiTok)
       THEN /\ call' = Thrown(call, CompositeError(call.status, call.rok))
            /\ Caught
            /\ sentStale' = FALSE
            /\ UNCHANGED msg
       ELSE /\ call' = [call EXCEPT !.stage = "req2", !.retryOnRefresh = RetryFlagOfRetry,
                                    !.nreq = @ + 1, !.retryNew = (apiTok = call.rauth)]
            /\ msg' = Request("api", buildCookieHeader(apiTok, apiDd))
            /\ sentStale' = IsStale(apiTok)
            /\ UNCHANGED <<pc, ci, ti>>
  /\ UNCHANGED <<store, returned, statusCode, loaded, users, ui, validCards,
                 travelsToConfirm, counts, apiTok, proReq, proResp, srvTok, written,
                 anyRequest, attempted, okConfirms>>
  /\ recv' = NoRecv
  /\ UNCHANGED <<served, apiDd>>
  /\ UNCHANGED eligible
  /\ UNCHANGED started
  /\ UNCHANGED single

\* ----------------------------------------- the orchestrator after a call
\* An orchestrator that would copy every client's token to the first record.
WithToken_Cross(us, i, tok) == [us EXCEPT ![1].accessToken = tok]
\* An orchestrator that would not copy the client's token.
WithToken_Mut(us, i, tok) == us
\* user.accessToken = sncfApi.accessToken (and the name, when given).
WithToken(us, i, tok) == [us EXCEPT ![i].accessToken = tok]
WithName(us, i) == [us EXCEPT ![i].name = "fetched"]

\* getCustomerInfo after response.json(), and the orchestrator up to its next
\* call: json() throws on a body that is not JSON (caught); the token is
\* copied; reading firstName of null throws (caught); reading cards.filter of
\* an object without cards throws outside any try, which rejects the run.
CompleteProfile ==
  /\ pc = "call" /\ call.stage = "json" /\ call.op = "profile"
  /\ \E body \in ProfileBodies(MaxCards) :
       CASE body.kind = "invalid" ->
              /\ call' = [call EXCEPT !.stage = "failed", !.err = "parse"]
              /\ Caught
              /\ UNCHANGED <<users, validCards, returned, eligible>>
         [] body.kind = "null" ->
              /\ call' = [call EXCEPT !.stage = "failed", !.err = "type"]
              /\ users' = WithToken(users, ui, apiTok)
              /\ Caught
              /\ UNCHANGED <<validCards, returned, eligible>>
         [] body.kind = "nocards" ->
              /\ call' = [call EXCEPT !.stage = "done"]
              /\ users' = WithName(WithToken(users, ui, apiTok), ui)
              /\ pc' = "done" /\ returned' = "rejected"
              /\ UNCHANGED <<ci, ti, validCards, eligible>>
         [] OTHER ->
              /\ call' = [call EXCEPT !.stage = "done"]
              /\ users' = WithName(WithToken(users, ui, apiTok), ui)
              /\ validCards' = ValidCards(body.cards)
              /\ eligible' = eligible \cup {validCards'[j].cardNumber : j \in 1 .. Len(validCards')}
              /\ IF Len(validCards') = 0
                   THEN pc' = "enduser" /\ ci' = ci
                   ELSE pc' = "cards" /\ ci' = 1
              /\ UNCHANGED <<ti, returned>>
  /\ sentStale' = FALSE
  /\ UNCHANGED <<store, statusCode, loaded, ui, travelsToConfirm, counts, apiTok, msg,
                 proReq, proResp, srvTok, written, anyRequest, attempted, okConfirms>>
  /\ recv' = NoRecv
  /\ UNCHANGED <<served, apiDd>>
  /\ UNCHANGED started
  /\ UNCHANGED single

\* getTravels after response.json(), and the orchestrator up to its next call:
\* a failed getTravels is caught; the token is copied; filtering an array that
\* holds a null (or a value that has no filter) throws outside any try.  The
\* body lists travels of those the service has not listed yet in the run.
CompleteTravels ==
  /\ pc = "call" /\ call.stage = "json" /\ call.op = "travels"
  /\ \E body \in TravelBodies(MaxTravels - served.travels) :
       LET r == getTravels(body)
       IN
       /\ served' = [served EXCEPT !.travels = @ + Len(body.travels)]
       /\ CASE r.threw ->
                 /\ call' = [call EXCEPT !.stage = "failed", !.err = r.err]
                 /\ Caught
                 /\ UNCHANGED <<users, travelsToConfirm, returned>>
            [] ~r.threw /\ r.ret.kind # "list" ->
                 /\ call' = [call EXCEPT !.stage = "done", !.ret = r.ret]
                 /\ users' = WithToken(users, ui, apiTok)
                 /\ pc' = "done" /\ returned' = "rejected"
                 /\ UNCHANGED <<ci, ti, travelsToConfirm>>
            [] OTHER ->
                 /\ call' = [call EXCEPT !.stage = "done", !.ret = r.ret]
                 /\ users' = WithToken(users, ui, apiTok)
                 /\ travelsToConfirm' = TravelsToConfirm(r.ret.travels)
                 /\ IF Len(travelsToConfirm') = 0
                      THEN pc' = "cards" /\ ci' = ci + 1 /\ ti' = ti
                      ELSE pc' = "trav" /\ ci' = ci /\ ti' = 1
                 /\ UNCHANGED returned
  /\ sentStale' = FALSE
  /\ UNCHANGED <<store, statusCode, loaded, ui, validCards, counts, apiTok, msg, proReq,
                 proResp, srvTok, written, anyRequest, attempted, okConfirms>>
  /\ recv' = NoRecv
  /\ UNCHANGED apiDd
  /\ UNCHANGED eligible
  /\ UNCHANGED started
  /\ UNCHANGED single

\* confirmTravel after response.json(), and the orchestrator up to its next
\* call: the token is copied and the card's count incremented when it resolved.
CompleteConfirm ==
  /\ pc = "call" /\ call.stage = "json" /\ call.op = "confirm"
  /\ \E body \in ConfirmBodies :
       LET resolved == body = "json"
           cardNumber == validCards[ci].cardNumber
       IN  /\ call' = [call EXCEPT !.stage = IF resolved THEN "done" ELSE "failed",
                                   !.err = IF resolved THEN "none" ELSE "parse"]
           /\ users' = IF resolved THEN WithToken(users, ui, apiTok) ELSE users
           /\ counts' = CountConfirmed(counts, cardNumber, resolved)
           /\ okConfirms' = IF resolved THEN [okConfirms EXCEPT ![cardNumber] = @ + 1]
                            ELSE okConfirms
  /\ ti' = ti + 1 /\ pc' = "trav"
  /\ sentStale' = FALSE
  /\ UNCHANGED <<store, returned, statusCode, loaded, ui, validCards, ci, travelsToConfirm,
                 apiTok, msg, proReq, proResp, srvTok, written, anyRequest, attempted>>
  /\ recv' = NoRecv
  /\ UNCHANGED <<served, apiDd>>
  /\ UNCHANGED eligible
  /\ UNCHANGED started
  /\ UNCHANGED single

Next ==
  \/ GetUsers \/ NextUser \/ EndUser \/ Finish \/ WriteSettles \/ NextCard \/ NextTravel \/ TravelsDone
  \/ ServiceAnswers \/ ServiceAnswersProactive \/ ProactiveReply
  \/ ServiceAnswersEarlier \/ EarlierReply
  \/ RecvResponse \/ FailAfterText \/ SendRefresh \/ RecvRefresh \/ RefreshCheck
  \/ CompleteProfile \/ CompleteTravels \/ CompleteConfirm

Spec == Init /\ [][Next]_vars

\* ------------------------------------ the single-card handler's steps
mainVars == <<store, pc, returned, statusCode, loaded, users, ui, validCards, ci,
              travelsToConfirm, ti, counts, apiTok, call, msg, proReq, proResp, srvTok,
              written, sentStale, anyRequest, attempted, okConfirms, recv, served,
              apiDd, eligible, started>>

\* lambdaHandler up to getTravels: getSNCFRefreshToken and getSNCFCardNumber
\* throw when the parameter has no value, which gives the 500 result.
SingleCardLoad ==
  /\ single.pc = "start"
  /\ \E haveRefreshToken \in BOOLEAN, haveCardNumber \in BOOLEAN :
       single' = IF haveRefreshToken /\ haveCardNumber
                   THEN [single EXCEPT !.pc = "travels"]
                   ELSE SingleCardResult(single, 500, "ssm", 0)
  /\ UNCHANGED mainVars

\* getTravels up to its fetch: refreshTokenIfNeeded calls getToken, since the
\* client has no id token yet; a body of getToken that is no JSON throws,
\* which gives the 500 result.
SingleCardGetTravels ==
  /\ single.pc = "travels"
  /\ \E answer \in {"throws", "data", "nodata"} :
       single' = IF answer = "throws"
                   THEN SingleCardResult(single, 500, "error", 0)
                   ELSE [single EXCEPT !.pc = "fetchTravels",
                                       !.token = refreshTokenIfNeeded(single.token, FALSE, answer)]
  /\ UNCHANGED mainVars

\* getTravels from its response, and the handler up to its first
\* confirmTravel: a body that is no JSON throws; what json() gives is returned
\* unchecked, and filtering a value that is no array, or an array that holds a
\* null, throws; every throw gives the 500 result.  No travel to confirm gives
\* the 204 result.
SingleCardTravels ==
  /\ single.pc = "fetchTravels"
  /\ \E body \in TravelBodies(MaxTravels) :
       IF body.kind # "list"
         THEN single' = SingleCardResult(single, 500, "error", 0)
         ELSE LET toConfirm == TravelsToConfirm(body.travels)
                  s == [single EXCEPT !.travels = body.travels, !.travelsToConfirm = toConfirm]
              IN  single' = IF Len(toConfirm) = 0
                              THEN SingleCardResult(s, 204, "nothing", 0)
                              ELSE [s EXCEPT !.pc = "confirm", !.ti = 1]
  /\ UNCHANGED mainVars

\* confirmTravel(travel) up to its fetch: it decodes the id token (an
\* undefined one throws) and refreshes it when it has expired; a throw gives
\* the 500 result.
SingleCardConfirm ==
  /\ single.pc = "confirm" /\ single.ti <= Len(single.travelsToConfirm)
  /\ \E expired \in BOOLEAN, answer \in {"throws", "data", "nodata"} :
       LET s == [single EXCEPT !.passed = @ + 1]
           threw == \/ single.token = "undefined"
                    \/ (mustRefreshToken(single.token, expired) /\ answer = "throws")
       IN  single' =
             IF threw THEN SingleCardResult(s, 500, "error", 0)
             ELSE [s EXCEPT !.pc = "fetchConfirm",
                            !.token = refreshTokenIfNeeded(single.token, expired, answer)]
  /\ UNCHANGED mainVars

\* confirmTravel from its response, and the handler up to its next
\* confirmTravel: a body that is no JSON throws (the 500 result); after the
\* last travel the handler returns its 204 result.
SingleCardConfirmed ==
  /\ single.pc = "fetchConfirm"
  /\ \E body \in ConfirmBodies :
       LET s == [single EXCEPT !.ti = @ + 1, !.pc = "confirm"]
       IN  single' =
             IF body = "invalid" THEN SingleCardResult(single, 500, "error", 0)
             ELSE IF s.ti > Len(s.travelsToConfirm)
               THEN SingleCardResult(s, 204, "confirmed",
                                     ConfirmedMessageCount(s.travels, s.travelsToConfirm))
             ELSE s
  /\ UNCHANGED mainVars

SingleCardNext ==
  \/ SingleCardLoad \/ SingleCardGetTravels \/ SingleCardTravels
  \/ SingleCardConfirm \/ SingleCardConfirmed

SingleCardInit == Init /\ ~store.fails /\ store.kind = "absent"

SingleCardSpec == SingleCardInit /\ [][SingleCardNext]_vars

\* The run with its steps taken: the event loop runs what is ready, and the
\* service answers every request it is sent.
FairSpec == Spec /\ WF_vars(Next)

\* ------------------------------------------------------------- the claims
\* C1: every request sent for a credential carries the last token the service
\* issued for it, never one the service has already rotated.
C1_RequestsCarryLatestToken ==
  ~(sentStale /\ \E n \in 0 .. srvTok[CurId] - 1 : apiTok = Tok(CurId, n))

\* C2: the credential collection handed to the store holds, for each
\* credential, the last token the service issued for it during the run.
C2_WrittenTokensAreLatest ==
  written.dispatched =>
    \A i \in 1 .. Len(written.value) :
      written.value[i].accessToken = Tok(written.value[i].id, srvTok[written.value[i].id])

\* C3: once the refresh that followed a 401/403 first attempt has been
\* answered successfully with a token other than the one the client held, the
\* call is re-issued, once, and the retry carries that token.
C3_RetryAfterGoodRefresh ==
  (call.rnew /\ call.stage # "rtext") => (call.nreq = 2 /\ call.retryNew)

\* C4: a client call sends at most two requests to its endpoint and runs at
\* most one reactive refresh, which follows the first attempt only: a retry
\* answered 401 or 403 fails the call.
C4_NoLoop ==
  /\ call.nreq <= 2
  /\ call.nref <= 1
  /\ (call.stage \in {"text1", "refresh", "rtext"} => call.nreq = 1)
C4_Witness ==
  call.stage = "failed" /\ call.nreq = 2 /\ call.status \in {401, 403}

\* C5: confirmTravel is only ever called with a travel whose travelConfirmed
\* is TO_BE_CONFIRMED.
C5_OnlyToBeConfirmed ==
  (pc = "call" /\ call.op = "confirm") =>
    travelsToConfirm[ti].travelConfirmed = "TO_BE_CONFIRMED"
C5_Witness ==
  /\ pc = "call" /\ call.op = "confirm"
  /\ Len(travelsToConfirm) = 1 /\ travelsToConfirm[ti].orderId = 2

\* C6: getTravels (and so confirmTravel) is only ever called for a card whose
\* contractStatus is VALIDE and whose productType is TGV_MAX_JEUNE.
C6_OnlyEligibleCards ==
  (pc = "call" /\ call.op \in {"travels", "confirm"}) =>
    (validCards[ci].contractStatus = "VALIDE" /\ validCards[ci].productType = "TGV_MAX_JEUNE")
C6_Witness ==
  /\ pc = "call" /\ call.op = "travels"
  /\ Len(validCards) = 1 /\ validCards[ci].cardNumber = 2

\* C7: when the run has ended, the profile fetch of every credential of the
\* list has been attempted.
C7_EveryCredentialProcessed ==
  (pc = "done" /\ loaded) => attempted = Len(users)

\* C8: the count of each card number equals the number of confirmTravel calls
\* for that card that resolved; a failed confirmation is not counted.
C8_CountsAreConfirmations ==
  /\ \A c \in DOMAIN counts : counts[c] = okConfirms[c]
  /\ \A c \in CardNumbers : okConfirms[c] > 0 => c \in DOMAIN counts
C8_Witness ==
  /\ pc = "trav" /\ Len(travelsToConfirm) = 2 /\ ti = 3
  /\ counts[validCards[ci].cardNumber] = 1

\* C9: when the store gives no credential list (null, text that is not JSON,
\* or JSON that is not an array), the run ends with a 500 result, sends no
\* Booking API request and writes nothing to the store.
C9_BadStoreFails ==
  (store.fails \/ store.kind \in {"absent", "empty", "malformed", "object"}) =>
    /\ ~anyRequest /\ ~written.dispatched
    /\ pc \in {"start", "done"}
    /\ (pc = "done" => (returned = "result" /\ statusCode = 500))
C9_Witness == pc = "done" /\ store.kind = "object" /\ ~store.fails /\ statusCode = 500

\* C10: whenever the credential list was obtained, the run ends with a result
\* whose statusCode is 204.
C10_Returns204 ==
  (pc = "done" /\ loaded) => (returned = "result" /\ statusCode = 204)

\* C11: the credential collection handed to the store holds every entry that
\* the store held at the start of the run, in the same order.
C11_WrittenKeepsEveryCredential ==
  written.dispatched =>
    /\ Len(written.value) = Len(store.entries)
    /\ \A i \in 1 .. Len(written.value) : written.value[i].id = store.entries[i].id

\* C12: a confirmTravel that fails leaves the loop on the next travel of the
\* same card, the same card list and the same credential, with the counts
\* unchanged and the run still going.
C12_FailedConfirmContinues ==
  [][(pc = "call" /\ call.op = "confirm" /\ call'.stage = "failed") =>
       /\ pc' = "trav" /\ ti' = ti + 1
       /\ travelsToConfirm' = travelsToConfirm
       /\ ci' = ci /\ validCards' = validCards /\ ui' = ui
       /\ counts' = counts /\ returned' = "pending"]_vars
\* The second travel of a card is being confirmed after the first one failed,
\* and the card ends with that one confirmation counted.
C12_Witness ==
  /\ pc = "trav" /\ ti = 3 /\ Len(travelsToConfirm) = 2
  /\ call.op = "confirm" /\ call.stage = "done"
  /\ okConfirms[validCards[ci].cardNumber] = 1

\* C13: right after a response is handled (to an API call, to a reactive or a
\* proactive refresh, whatever its status), the client holds the auth token of
\* the response headers when they carry one that differs from the token held
\* before, and the token held before otherwise.
C13_AdoptsRotatedToken ==
  recv.got =>
    apiTok = (IF recv.auth # Null /\ recv.auth # recv.held THEN recv.auth ELSE recv.held)

\* C14: once a refresh response has been handled that carried no auth token,
\* or the token the refresh request carried, the call that triggered the
\* refresh fails without re-issuing its request.
C14_RefreshWithoutNewTokenFails ==
  (call.rsame /\ call.stage # "rtext") => (call.stage = "failed" /\ call.nreq = 1)

\* C15: a call whose refresh was answered with a status that is not ok has
\* failed without re-issuing its request, and a call that failed after its
\* refresh and without a retry threw the composite error, which names the
\* refresh error and the 401/403 status of the first response.
C15_CompositeErrorOnFailedRefresh ==
  /\ (call.nref = 1 /\ ~call.rok /\ call.stage \notin {"refresh", "rtext"}) =>
       (call.stage = "failed" /\ call.nreq = 1)
  /\ (call.stage = "failed" /\ call.nref = 1 /\ call.nreq = 1) =>
       /\ call.err = "composite"
       /\ call.errOrig = call.status /\ call.status \in {401, 403}
       /\ call.errRefresh = (IF call.rok THEN "nocookie" ELSE "failed")
C15_Witness ==
  /\ call.stage = "failed" /\ call.nref = 1 /\ ~call.rok
  /\ call.op = "travels" /\ call.errOrig = 403

\* C16: a call that failed on the response to its retry threw the plain API
\* error, which names the status of that response and no refresh error.
C16_PlainErrorAfterRetry ==
  (call.stage = "failed" /\ call.nreq = 2 /\ ~ResponseOk(call.status)) =>
    (call.err = "api" /\ call.errOrig = call.status /\ call.errRefresh = "none")
C16_Witness ==
  call.stage = "failed" /\ call.nreq = 2 /\ call.nref = 1 /\ call.rok /\ call.status = 500

\* C17: a call whose first attempt was answered with a status that is neither
\* successful nor 401 nor 403 runs no refresh and sends no second request: it
\* is reading the error body or has failed with the plain API error.
C17_OtherErrorsFailAtOnce ==
  (call.retryOnRefresh /\ call.status # 0 /\ ~ResponseOk(call.status)
     /\ call.status \notin {401, 403}) =>
    /\ call.nref = 0 /\ call.nreq = 1
    /\ call.stage \in {"errtext", "failed"}
    /\ (call.stage = "failed" => (call.err = "api" /\ call.errOrig = call.status))
C17_Witness ==
  /\ call.stage = "failed" /\ call.op = "confirm"
  /\ call.retryOnRefresh /\ call.status = 500 /\ call.nreq = 1

\* C18: a proactive refresh is sent only in the step that handles a successful
\* response to the call's request; the step that handles the reply to a
\* proactive refresh leaves the call, the orchestrator and the run's result
\* as they are; and a call that ran no reactive refresh never fails with a
\* refresh error.
C18_ProactiveRefreshIsBestEffort ==
  [][/\ (proReq'.client > proReq.client) =>
          /\ call.stage \in {"req1", "req2"} /\ call'.stage = "json"
          /\ ResponseOk(call'.status)
     /\ (BagCardinality(proResp'.client) < BagCardinality(proResp.client) /\ ui' = ui) =>
          (call' = call /\ pc' = pc /\ returned' = returned /\ users' = users)
     /\ (call'.stage = "failed" /\ call'.nref = 0) =>
          (call'.err # "composite" /\ call'.errRefresh = "none")]_vars
\* A call has returned to the orchestrator while the proactive refresh it
\* fired is still unanswered.
C18_Witness ==
  /\ pc = "cards" /\ call.op = "profile" /\ call.stage = "done"
  /\ proReq.client = 1

\* C19: at most one Booking API request of the run is awaiting its response
\* at any time, the token refreshes included.
C19_OneRequestAtATime ==
  (IF msg.stage \in {"request", "response"} THEN 1 ELSE 0) + InFlight <= 1

\* C20: a run that obtained its credentials and has ended dispatched exactly
\* one store write; a write is dispatched only once the last credential has
\* been processed, in the step in which the run returns its result; and the
\* step in which the write succeeds or fails changes neither the counts nor
\* the result.
C20_OneWriteAfterLastCredential ==
  /\ []((pc = "done" /\ loaded) => written.n = 1)
  /\ [](written.n <= 1)
  /\ [][written'.n > written.n =>
          /\ attempted = Len(users) /\ ui > Len(users)
          /\ returned' = "result" /\ written'.outcome = "pending"]_vars
  /\ [][(written.outcome = "pending" /\ written'.outcome # "pending") =>
          (counts' = counts /\ returned' = returned /\ statusCode' = statusCode)]_vars

\* C21: once a client call has succeeded, the credential record holds the
\* token the client holds; and a step in which a client call fails leaves the
\* credential records as they are.
C21_TokenCopiedAfterSuccess ==
  /\ []((call.stage = "done" /\ pc # "done") => users[ui].accessToken = apiTok)
  /\ [][(call'.stage = "done" /\ call.stage # "done") =>
          users'[ui].accessToken = apiTok']_vars
  /\ [][(call'.stage = "failed" /\ call.stage # "failed" /\ call'.err # "type") =>
          users' = users]_vars
\* A confirmTravel has failed for a credential whose record holds the rotated
\* token that an earlier call of the run brought.
C21_Witness ==
  /\ call.stage = "failed" /\ call.op = "confirm" /\ call.err = "api"
  /\ users[ui].accessToken = Tok(users[ui].id, 1)

\* C22: reading the parameter never throws and gives null when the store
\* fails or holds no value, so that the run then ends with the 500 result of
\* getUsers; and writing the parameter never throws, whether or not the store
\* takes the value: the write of a run settles as stored or as failed, never
\* with an error handed to its caller, and a write that failed leaves the run
\* returned with its 204 result.
C22_StoreAdapterNeverRaises ==
  /\ ~getParameterValue(store).threw
  /\ (store.fails \/ store.kind = "absent") =>
       /\ getParameterValue(store).isNull
       /\ getUsers(store).message = "Cannot get SNCF users from SSM."
       /\ (pc = "done" => (returned = "result" /\ statusCode = 500))
  /\ \A putFails \in BOOLEAN :
       /\ ~updateParameter(putFails).threw
       /\ updateParameter(putFails).stored = ~putFails
  /\ written.outcome \in {"none", "pending", "stored", "failed"}
  /\ written.outcome = "failed" => (returned = "result" /\ statusCode = 204)
\* The store refused the write of two credentials, and updateParameter
\* completed.
C22_Witness ==
  pc = "done" /\ written.outcome = "failed" /\ Len(written.value) = 2

\* C23: a step in which getTravels fails for a card goes on to the next card
\* of the same credential, with the card list as it was and the run still
\* going; and the loop over the travels to confirm is entered only from a
\* getTravels that succeeded, so no confirmTravel is called for the card whose
\* fetch failed; and while a card is left, the next step of the run is the
\* getTravels call for it.
C23_FailedTravelFetchSkipsCard ==
  /\ [][(pc = "call" /\ call.op = "travels" /\ call'.stage = "failed") =>
          /\ pc' = "cards" /\ ci' = ci + 1
          /\ validCards' = validCards /\ ui' = ui
          /\ travelsToConfirm' = <<>> /\ okConfirms' = okConfirms
          /\ returned' = "pending"]_vars
  /\ [][(pc' = "trav" /\ pc # "trav") =>
          /\ call.op \in {"travels", "confirm"}
          /\ (call.op = "travels" => call'.stage = "done")]_vars
  /\ [][(pc = "cards" /\ ci <= Len(validCards)) =>
          (pc' = "call" /\ call' = NewCall("travels") /\ ci' = ci)]_vars
\* The first of two eligible cards has just had its travel fetch fail and the
\* second one is about to be queried.
C23_Witness ==
  /\ pc = "cards" /\ call.op = "travels" /\ call.stage = "failed"
  /\ ci = 2 /\ Len(validCards) = 2

\* C24: on the body of a successful response, getTravels fails exactly when
\* the body is no JSON or its value is not a list, and otherwise returns the
\* parsed list as it is; in the run, a getTravels that failed on the body
\* returned nothing, and the travels to confirm are those of the list it
\* returned.
C24_GetTravelsReturnsLists ==
  /\ pc = "start" =>
       \A body \in TravelBodies(MaxTravels) :
         /\ getTravels(body).threw <=> body.kind \in {"invalid", "notarray"}
         /\ ~getTravels(body).threw => getTravels(body).ret = body
  /\ (call.op = "travels" /\ call.stage = "failed" /\ call.err \in {"parse", "format"}) =>
       call.ret.kind = "none"
  /\ (call.op = "travels" /\ call.stage = "done") =>
       /\ call.ret.kind \in {"list", "nullitem"}
       /\ Len(call.ret.travels) <= MaxTravels
       /\ \A i \in 1 .. Len(call.ret.travels) :
            call.ret.travels[i].travelConfirmed \in TravelStatuses
       /\ (call.ret.kind = "list" /\ pc = "trav") =>
            travelsToConfirm = TravelsToConfirm(call.ret.travels)
       /\ call.ret.kind = "nullitem" => returned = "rejected"
\* getTravels has returned a list of two travels of which only the second is
\* to be confirmed.
C24_Witness ==
  /\ call.op = "travels" /\ call.stage = "done" /\ call.ret.kind = "list"
  /\ Len(call.ret.travels) = 2 /\ Len(travelsToConfirm) = 1
  /\ travelsToConfirm[1].orderId = 2

\* C25: a getTravels call is issued only for a credential whose
\* getCustomerInfo has succeeded in this run (its name is the fetched one) and
\* for one of its eligible cards; a confirmTravel call is issued only for a
\* travel of the list a successful getTravels returned for the current card,
\* and the confirmations of a card leave the card and the credential as they
\* are; and the run moves from a credential to the next one only, with no call
\* in progress, so that every call for a credential is issued before any call
\* for the next.
C25_ProfileThenTravelsThenConfirm ==
  /\ [][(call' = NewCall("travels") /\ call # call') =>
          /\ pc = "cards" /\ ui' = ui /\ ui \in 1 .. Len(users)
          /\ users[ui].name = "fetched" /\ ci \in 1 .. Len(validCards)
          /\ call.op \in {"profile", "travels", "none"}
          /\ (call.op = "profile" => call.stage = "done")]_vars
  /\ [][(call' = NewCall("confirm") /\ call # call') =>
          /\ pc = "trav" /\ ui' = ui /\ ci' = ci
          /\ ti \in 1 .. Len(travelsToConfirm)
          /\ travelsToConfirm' = travelsToConfirm
          /\ \/ /\ call.op = "travels" /\ call.stage = "done" /\ call.ret.kind = "list"
                /\ travelsToConfirm = TravelsToConfirm(call.ret.travels)
             \/ call.op = "confirm" /\ ti > 1]_vars
  /\ [][(call' = NewCall("profile") /\ call # call') =>
          (pc = "loop" /\ call = NoCall /\ apiTok' = users[ui].accessToken)]_vars
  /\ [][ui' # ui => (ui' = ui + 1 /\ pc # "call" /\ pc' = "loop" /\ call' = NoCall)]_vars
  /\ [](pc = "call" => (ui \in 1 .. Len(users) /\ call.op \in {"profile", "travels", "confirm"}))
\* The profile of the second credential is being fetched after a travel of
\* the first credential was confirmed.
C25_Witness ==
  /\ ui = 2 /\ pc = "call" /\ call.op = "profile"
  /\ okConfirms[1] = 1 /\ users[1].name = "fetched"

\* C26: when refreshToken ends after a successful response that carried an
\* auth token other than the one its request carried, it has not thrown (the
\* call does not fail on it) and the client holds the token of the response.
C26_GoodRefreshCompletes ==
  [][(call.stage = "rtext" /\ call.rnew /\ call'.stage # "rtext") =>
       (call'.stage # "failed" /\ call'.errRefresh = "none" /\ apiTok' = call.rauth)]_vars

\* C27: every request sent for a credential that is stored with a
\* datadomeCookie carries that cookie in its Cookie header, next to the auth
\* token the client holds.
C27_RequestsCarryStoredDatadome ==
  (msg.stage = "request" /\ Truthy(users[ui].datadomeCookie)) =>
    (msg.dd = users[ui].datadomeCookie /\ msg.tok = apiTok)

\* C28: a step in which getCustomerInfo fails leaves every credential record
\* as it is (the token the client may have adopted during the call is not
\* copied) and ends the credential's turn with no eligible card and the counts
\* unchanged; from there the only step is on to the next credential, so no
\* getTravels or confirmTravel call is made for it; and the record of a
\* credential other than the current one never changes.
C28_FailedProfileLeavesRecord ==
  /\ [][(pc = "call" /\ call.op = "profile" /\ call'.stage = "failed" /\ call'.err # "type") =>
          /\ users' = users
          /\ pc' = "enduser" /\ ui' = ui
          /\ validCards' = <<>> /\ counts' = counts /\ returned' = "pending"]_vars
  /\ [][pc = "enduser" => (pc' = "loop" /\ ui' = ui + 1 /\ call' = NoCall /\ users' = users)]_vars
  /\ [][loaded => (\A i \in 1 .. Len(users) : i # ui => users'[i] = users[i])]_vars
\* The profile fetch of a credential has failed on a response that rotated
\* the token: the client holds the new token and the record the stored one.
C28_Witness ==
  /\ pc = "enduser" /\ call.op = "profile" /\ call.stage = "failed" /\ call.err = "api"
  /\ apiTok = Tok(users[ui].id, 1) /\ users[ui].accessToken = Tok(users[ui].id, 0)
  /\ users[ui].name = "stored"

\* C29: the keys of the mapping the run returns are exactly the card numbers
\* of the eligible cards of the profiles that were fetched; during the run,
\* every eligible card whose turn has begun has its key, whatever became of its
\* travel fetch, and no other number ever gets a key.
C29_KeysAreEligibleCards ==
  /\ (pc = "done" /\ returned = "result" /\ statusCode = 204) => DOMAIN counts = eligible
  /\ DOMAIN counts \subseteq eligible
  /\ \A j \in 1 .. Len(validCards) :
       (j < ci \/ (j = ci /\ pc # "cards")) => validCards[j].cardNumber \in DOMAIN counts
\* The run has returned a mapping in which the second card of a profile, the
\* only eligible one, has its key with the count 0.
C29_Witness ==
  /\ pc = "done" /\ returned = "result" /\ statusCode = 204
  /\ eligible = {2} /\ DOMAIN counts = {2} /\ counts[2] = 0

\* C30: the token a client holds, the accessToken of every credential record
\* and of every record handed to the store are never null or empty: getUsers
\* keeps only the credentials that have a token, and a response without an
\* auth cookie, or with a blank one, changes nothing.
C30_TokensNeverEmpty ==
  /\ pc \in {"call", "cards", "trav", "enduser"} => Truthy(apiTok)
  /\ \A i \in 1 .. Len(users) : Truthy(users[i].accessToken)
  /\ \A i \in 1 .. Len(written.value) : Truthy(written.value[i].accessToken)
  /\ msg.stage = "request" => Truthy(msg.tok)
  /\ (recv.got /\ ~Truthy(recv.auth)) => Truthy(recv.held)
\* One of two stored credentials had an empty token and was discarded, and
\* the client of the other has just handled a response without an auth token.
C30_Witness ==
  /\ Len(store.entries) = 2 /\ Len(users) = 1
  /\ recv.got /\ recv.auth = Null /\ Truthy(apiTok)

\* C31: every token in use belongs to the credential it is used for: the
\* token the client holds (which every request it sends carries, a proactive
\* refresh included) and the token of the awaited request is one stored with
\* or issued to the current credential (or the value of a foreign cookie its
\* own responses carried),
\* and the token of every record, in memory and as handed to the store, is one
\* of that record's credential.
C31_TokensNeverCross ==
  LET OwnToken(tok, id) == tok[1] = id \/ tok = OtherValue
  IN
  /\ pc \in {"call", "cards", "trav", "enduser"} => OwnToken(apiTok, CurId)
  /\ msg.stage = "request" => OwnToken(msg.tok, CurId)
  /\ \A i \in 1 .. Len(users) : OwnToken(users[i].accessToken, users[i].id)
  /\ \A i \in 1 .. Len(written.value) :
       OwnToken(written.value[i].accessToken, written.value[i].id)
\* The second credential's request carries its stored token after the first
\* credential's record took a rotated token.
C31_Witness ==
  /\ ui = 2 /\ msg.stage = "request" /\ msg.tok = Tok(users[2].id, 0)
  /\ users[1].accessToken = Tok(users[1].id, 1)

\* The steps a call has left at most: twice the rank of its stage, and one
\* while its request awaits the answer of the service.
StageRank(stage) ==
  CASE stage = "req1" -> 8 [] stage = "text1" -> 7 [] stage = "refresh" -> 6
    [] stage = "rtext" -> 5 [] stage = "req2" -> 4 [] stage = "errtext" -> 3
    [] stage = "json" -> 2 [] OTHER -> 0
CallRank == 2 * StageRank(call.stage) + (IF msg.stage = "request" THEN 1 ELSE 0)
CallRankMax == 2 * StageRank("req1") + 1
\* A bound on the steps the run has left: those of the travels left of the
\* card (TravelWeight each), of the cards left of the credential (CardWeight
\* each) and of the credentials left (UserWeight each), of the call in
\* progress, of the replies to proactive refreshes that may still come or be
\* handled, and of the store write.
TravelWeight == CallRankMax + 2
CardWeight == (MaxTravels + 2) * TravelWeight + CallRankMax + 2
UserWeight == (MaxCards + 1) * CardWeight + CallRankMax + 3
UsersLeft == Len(users) - ui + 1
CardsLeft == Len(validCards) - ci + 1
TravelsLeft == Len(travelsToConfirm) - ti + 1
Rank ==
  (CASE pc = "start" -> (MaxUsers + 2) * UserWeight
     [] pc = "loop" -> UsersLeft * UserWeight + (MaxCards + 1) * CardWeight + CallRankMax + 2
     [] pc = "call" /\ call.op = "profile" ->
          UsersLeft * UserWeight + (MaxCards + 1) * CardWeight + 1 + CallRank
     [] pc = "cards" ->
          UsersLeft * UserWeight + CardsLeft * CardWeight + (MaxTravels + 1) * TravelWeight
            + 2 * CallRankMax + 3
     [] pc = "call" /\ call.op = "travels" ->
          UsersLeft * UserWeight + CardsLeft * CardWeight + (MaxTravels + 1) * TravelWeight
            + CallRankMax + 2 + CallRank
     [] pc = "trav" ->
          UsersLeft * UserWeight + CardsLeft * CardWeight + TravelsLeft * TravelWeight
            + CallRankMax + 1
     [] pc = "call" /\ call.op = "confirm" ->
          UsersLeft * UserWeight + CardsLeft * CardWeight + TravelsLeft * TravelWeight + CallRank
     [] pc = "enduser" -> UsersLeft * UserWeight
     [] OTHER -> 0)
  + 2 * (MaxReplies - served.replies) + BagCardinality(proResp.client) + proResp.earlier
  + (IF written.outcome = "pending" THEN 1 ELSE 0)

\* C32: the run ends: as long as it has not ended it has a step to take, and
\* every step lowers Rank, a natural number, so that the steps of FairSpec
\* lead to the end; it has then returned its result unless an answer of the
\* service was no card list or no travel list; and it makes at most one
\* profile call per credential, one getTravels call per eligible card of the
\* credential and one confirmTravel call per travel to confirm of the card,
\* each of them sending its request at most twice.
C32_RunTerminates ==
  /\ [](pc # "done" => ENABLED Next)
  /\ [](Rank \in Nat)
  /\ [][Rank' < Rank]_vars
  /\ [](/\ attempted <= Len(users)
        /\ attempted = (IF pc = "loop" THEN ui - 1 ELSE IF pc \in {"start", "done"} THEN attempted ELSE ui)
        /\ started.travels <= Len(validCards)
        /\ started.confirm <= Len(travelsToConfirm)
        /\ (pc = "cards" => started.travels = ci - 1)
        /\ (pc = "trav" => (started.travels = ci /\ started.confirm = ti - 1))
        /\ (pc = "call" /\ call.op = "confirm" => started.confirm = ti)
        /\ call.nreq <= 2 /\ call.nref <= 1)
  /\ []((pc = "done" /\ returned = "rejected") =>
          (call.stage = "done" /\ (call.op = "profile" \/ call.ret.kind = "nullitem")))
\* The run has returned its result after a profile call for each of two
\* credentials and a confirmation for each of them.
C32_Witness ==
  /\ pc = "done" /\ returned = "result" /\ statusCode = 204
  /\ Len(users) = 2 /\ attempted = 2 /\ okConfirms[1] = 2

\* C33: when the single-card handler answers "Successfully confirmed N
\* travel(s).", N is the number of travels it passed to confirmTravel, which is
\* the number of the travels of the card that were to be confirmed.
C33_MessageCountsConfirmed ==
  single.message = "confirmed" =>
    /\ single.passed = Len(TravelsToConfirm(single.travels))
    /\ single.n = single.passed

====
